---- MODULE Spec2Model ----
(***************************************************************************)
(* Model of airmozilla/main/views/edit.py: the optimistic-concurrency      *)
(* edit of one event (EventEditView.get / EventEditView.post), the         *)
(* revision lookup of EventRevisionView.get, the chapters of an event      *)
(* (EventEditChaptersView) and its thumbnails                              *)
(* (EventChaptersThumbnailsView.get).                                      *)
(*                                                                         *)
(* The database is one committed record `db`.  A request runs inside      *)
(* transaction.atomic: its writes go to a per-request log `wlog` that is   *)
(* applied to `db` when the view returns normally and dropped when the     *)
(* view raises (READ COMMITTED: a request reads the committed rows plus    *)
(* its own writes).  Auto-increment ids (tagSeq, revSeq) are not           *)
(* transactional.                                                          *)
(***************************************************************************)
EXTENDS Naturals, Integers, Sequences, FiniteSets, TLC

VARIABLES
    db,              \* committed rows: event, its m2m rows, Tag table, revisions
    tagSeq,          \* last Tag id handed out
    revSeq,          \* last EventRevision id / created stamp handed out
    pc,              \* per client: position of its POST inside post()
    baseline,        \* per client: the 'previous' JSON it got from its last GET
    req,             \* per client: the POST it sent (cleaned_data, FILES, flags)
    event,           \* per client: the in-memory Event loaded by get_event
    wlog,            \* per client: uncommitted writes of its transaction
    base_revision,   \* per client: id of the revision made at line 128, or 0
    changes,         \* per client: the `changes` dict of post()
    conflict_errors, \* per client: the `conflict_errors` list of post()
    outcome,         \* per client: which return of post() was taken
    pre,             \* per client: committed rows when its POST began
    nreq,            \* number of POSTs begun so far
    editable,        \* the form fields the clients edit in this behaviour
    history,         \* the last two finished POSTs, latest first
    Chapter,         \* the Chapter rows of the event
    chapterSeq,      \* last Chapter id handed out
    chapterTasks,    \* chapter ids handed to tasks.create_chapterimages
    chapterPost,     \* the last POST to the chapters view and its response
    chapterList,     \* the last 'all' listing of the chapters view
    timenails,       \* what get_timenail_timestamps(event) returns
    Picture,         \* the Picture rows of the event that have a timestamp
    cache,           \* django.core.cache: entries with their expiry times
    now,             \* the clock, in seconds
    ticks,           \* how often the clock has been advanced
    dispatched,      \* the calls of tasks.create_timestamp_pictures.delay
    thumbs           \* the last thumbnails request and its response

editVars == <<db, tagSeq, revSeq, pc, baseline, req, event, wlog, base_revision,
              changes, conflict_errors, outcome, pre, nreq, editable, history>>

chapterVars == <<Chapter, chapterSeq, chapterTasks, chapterPost, chapterList>>

thumbVars == <<timenails, Picture, cache, now, ticks, dispatched, thumbs>>

vars == <<editVars, chapterVars, thumbVars>>

-----------------------------------------------------------------------------
(* Bounds of the model *)

\* POSTs explored in one behaviour
MaxRequests == 2


-----------------------------------------------------------------------------
(* Value domains *)

None == "None"

Users == {"u1", "u2"}

\* the client that posts when requests are processed one after another
SeqUsers == {"u1"}

TitleVals == {"Old", "A", "B"}

DescriptionVals == {"d0", "d1"}

PictureVals == {None, "p1"}

UploadVals == {None, "img1"}

TagNames == {"foo", "Foo", "bar"}

ChannelIds == {1, 2}

ScalarKeys == {"title", "description", "picture"}

\* name__iexact compares case-folded names
Lower(name) == IF name = "Foo" THEN "foo" ELSE name

\* position of a name in Python's sorted(): code point order, capitals first
NameRank ==
    [name \in TagNames |->
        CASE name = "Foo" -> 1
          [] name = "bar" -> 2
          [] name = "foo" -> 3]

ChannelName(id) == IF id = 1 THEN "Main" ELSE "Mozillians"

ChannelRank == [name \in {ChannelName(id) : id \in ChannelIds} |-> IF name = "Main" THEN 1 ELSE 2]

\* FieldFile.url of a stored file
Url(file) == "/media/" \o file

Perms(S) ==
    {s \in [1..Cardinality(S) -> S] : \A i, j \in 1..Cardinality(S) : i # j => s[i] # s[j]}

Range(s) == {s[i] : i \in DOMAIN s}

RECURSIVE SortBy(_, _)
\* sorted(S) under the rank function
SortBy(S, rank) ==
    IF S = {} THEN <<>>
    ELSE LET m == CHOOSE x \in S : \A y \in S : rank[x] <= rank[y]
         IN <<m>> \o SortBy(S \ {m}, rank)

RECURSIVE Join(_)
\* ', '.join(seq)
Join(s) ==
    IF s = <<>> THEN ""
    ELSE IF Len(s) = 1 THEN s[1]
    ELSE s[1] \o ", " \o Join(Tail(s))

-----------------------------------------------------------------------------
(* The database *)

TagRows(rows, ids) == {r \in rows : r.id \in ids}

TagNamesOf(rows, ids) == {r.name : r \in TagRows(rows, ids)}

\* EventRevision.objects.create_from_event(event, user): a snapshot of the
\* in-memory event and of its current m2m rows, stamped with the next id
CreateFromEvent(id, ev, tags, channels, user) ==
    [id |-> id, created |-> id, user |-> user,
     title |-> ev.title, description |-> ev.description,
     picture |-> ev.picture, placeholder_img |-> ev.placeholder_img,
     tags |-> tags, channels |-> channels]

\* one write of a transaction applied to the rows
ApplyOp(d, op) ==
    CASE op.op = "save" -> [d EXCEPT !.event = op.event]
      [] op.op = "tags_add" -> [d EXCEPT !.tags = @ \cup {op.id}]
      [] op.op = "tags_remove" -> [d EXCEPT !.tags = @ \ {op.id}]
      [] op.op = "channels_add" -> [d EXCEPT !.channels = @ \cup {op.id}]
      [] op.op = "channels_remove" -> [d EXCEPT !.channels = @ \ {op.id}]
      [] op.op = "tag_create" -> [d EXCEPT !.Tag = @ \cup {[id |-> op.id, name |-> op.name]}]
      [] op.op = "revision_create" -> [d EXCEPT !.revisions = @ \cup {op.rev}]
      [] op.op = "revision_delete" ->
            [d EXCEPT !.revisions = {r \in @ : r.id # op.id}]

RECURSIVE ApplyLog(_, _)
ApplyLog(d, log) ==
    IF log = <<>> THEN d ELSE ApplyLog(ApplyOp(d, Head(log)), Tail(log))

\* transaction.atomic on leaving post(): commit on return, roll back on raise
AtomicExit(d, log, out) == IF out = "error" THEN d ELSE ApplyLog(d, log)

-----------------------------------------------------------------------------
(* EventEditView.event_to_dict *)

\* the snapshots event_to_dict can return: the relation lists come in the
\* order the database happens to return the rows
EventToDict(d) ==
    {[title |-> d.event.title,
      description |-> d.event.description,
      picture |-> d.event.picture,
      placeholder_img |->
          IF d.event.placeholder_img # None THEN Url(d.event.placeholder_img) ELSE None,
      tags |-> t, channels |-> c] : t \in Perms(d.tags), c \in Perms(d.channels)}

-----------------------------------------------------------------------------
(* Tag lookups of post() *)

\* Tag.objects.filter(name=name)
Exact(rows, name) == {r \in rows : r.name = name}

\* Tag.objects.filter(name__iexact=name)
IExact(rows, name) == {r \in rows : Lower(r.name) = Lower(name)}

\* the label of a case-insensitive match in the `pick` a request draws
FoldedNames == {Lower(n) : n \in TagNames}

\* which row filter(name__iexact=..)[:1] returns is the database's choice:
\* a request draws one row id per folded name among the rows that match
Picks(rows, seq) ==
    {p \in [FoldedNames -> 0..seq] :
        \A k \in FoldedNames :
            IF IExact(rows, k) = {} THEN p[k] = 0
            ELSE p[k] \in {r.id : r \in IExact(rows, k)}}

\* the lookup of line 192 made with the exact name
LookupTag_Exact(rows, name, pick) ==
    LET m == Exact(rows, name)
    IN IF m = {} THEN [id |-> 0, name |-> name]
       ELSE IF Cardinality(m) = 1 THEN CHOOSE r \in m : TRUE
       ELSE CHOOSE r \in m : r.id = pick[Lower(name)]

\* lines 191-196: the Tag a submitted name resolves to; a row with id 0 stands
\* for Tag.DoesNotExist
LookupTag(rows, name, pick) ==
    LET m == IExact(rows, name)
    IN IF m = {} THEN [id |-> 0, name |-> name]
       ELSE IF Cardinality(m) = 1 THEN CHOOSE r \in m : TRUE
       ELSE CHOOSE r \in m : r.id = pick[Lower(name)]

RECURSIVE AddTags(_, _, _)
\* lines 190-197 over the names of value - prev in iteration order `names`;
\* st = [rows, seq, log]: the Tag rows this request sees, the Tag id sequence
\* and the writes so far
AddTags(names, st, pick) ==
    IF names = <<>> THEN st
    ELSE LET name == Head(names)
             found == LookupTag(st.rows, name, pick)
             made == [id |-> st.seq + 1, name |-> name]
         IN IF found.id = 0
            THEN AddTags(Tail(names),
                         [rows |-> st.rows \cup {made},
                          seq |-> st.seq + 1,
                          log |-> st.log \o <<[op |-> "tag_create", id |-> made.id, name |-> name],
                                              [op |-> "tags_add", id |-> made.id]>>],
                         pick)
            ELSE AddTags(Tail(names),
                         [st EXCEPT !.log = @ \o <<[op |-> "tags_add", id |-> found.id]>>],
                         pick)

\* lines 187-189: one event.tags.remove per name of prev - value
RemoveTags(rows, names) ==
    LET ord == SortBy(names, NameRank)
    IN [i \in 1..Len(ord) |->
           [op |-> "tags_remove", id |-> (CHOOSE r \in Exact(rows, ord[i]) : TRUE).id]]

\* Tag.objects.get(name=tag) at line 188 raises unless exactly one row matches
RemoveRaises(rows, names) == \E n \in names : Cardinality(Exact(rows, n)) # 1

-----------------------------------------------------------------------------
(* Per-field rules of post() *)

\* Picture.file.url of the picture with this id
PictureUrl(picture) == Url("pictures/" \o picture)

\* lines 139-160: "what the active current value is in the database";
\* tags_now and channels_now are the id lists the two .all() calls return
CurrentValue(key, ev, files, tags_now, channels_now) ==
    CASE key = "placeholder_img" ->
            IF ev.picture # None /\ files = None THEN PictureUrl(ev.picture)
            ELSE IF ev.placeholder_img # None THEN Url(ev.placeholder_img)
            ELSE None
      [] key = "tags" -> tags_now
      [] key = "channels" -> channels_now
      [] OTHER -> ev[key]

\* every submitted scalar field taken as changed
ScalarChanged_Always(value, previous_value) == TRUE

\* line 217: a scalar field is changed when the value differs from the baseline
ScalarChanged(value, previous_value) == value # previous_value

\* line 204: the file field is changed when a file came with the request
FileChanged(value) == value # None

\* lines 172 and 198: a relation is changed when the two sets differ
RelationChanged(prev, value) == prev # value

\* the comparison of line 227 turned round
IsConflict_Inverted(previous_value, current_value) == previous_value = current_value

\* lines 226-227: "has your reference changed since you loaded it?"
IsConflict(previous_value, current_value) == previous_value # current_value

\* the baseline made before the form is validated
NeedsBaseRevision_Unvalidated(valid, revisions) == Cardinality(revisions) = 0

\* the test of line 127 turned round
NeedsBaseRevision_Inverted(valid, revisions) == valid /\ Cardinality(revisions) # 0

\* lines 126-127: a revision-less event gets a baseline, once the form is valid
NeedsBaseRevision(valid, revisions) == valid /\ Cardinality(revisions) = 0

\* the ChangeSet looked at before the conflict list
Branch_ChangesFirst(conflicts, changed) ==
    IF changed # {} THEN "CHANGED"
    ELSE IF conflicts # {} THEN "CONFLICT"
    ELSE "NOOP"

\* lines 231-246: which branch post() ends in
Branch(conflicts, changed) ==
    IF conflicts # {} THEN "CONFLICT"
    ELSE IF changed # {} THEN "CHANGED"
    ELSE "NOOP"

\* line 128: the baseline revision, made without a user
BaseLog(needed, id, ev, tags, channels) ==
    IF needed
    THEN <<[op |-> "revision_create", rev |-> CreateFromEvent(id, ev, tags, channels, None)]>>
    ELSE <<>>

\* the revision of line 240 made without the user
ChangedLog_NoUser(id, ev, tags, channels, user) ==
    <<[op |-> "save", event |-> ev],
      [op |-> "revision_create", rev |-> CreateFromEvent(id, ev, tags, channels, None)]>>

\* lines 239-243: event.save(), then a revision of the saved event by the user
ChangedLog(id, ev, tags, channels, user) ==
    <<[op |-> "save", event |-> ev],
      [op |-> "revision_create", rev |-> CreateFromEvent(id, ev, tags, channels, user)]>>

\* the baseline of a NOOP left in place
NoopLog_Keep(base) == <<>>

\* the event's first revision deleted, whoever made it
NoopLog_First(base) == <<[op |-> "revision_delete", id |-> 1]>>

\* lines 245-246: a baseline made by this request is deleted again
NoopLog(base) ==
    IF base # 0 THEN <<[op |-> "revision_delete", id |-> base]>> ELSE <<>>

\* lines 174-179
ChannelLabel(ids) == Join(SortBy({ChannelName(id) : id \in ids}, ChannelRank))

\* lines 200-201
TagLabel(names) == Join(SortBy(names, NameRank))

\* lines 168-171: event.channels.remove / event.channels.add
ChannelOps(prev, value) ==
    LET rm == SortBy(prev \ value, [id \in ChannelIds |-> id])
        ad == SortBy(value \ prev, [id \in ChannelIds |-> id])
    IN [i \in 1..Len(rm) |-> [op |-> "channels_remove", id |-> rm[i]]]
       \o [i \in 1..Len(ad) |-> [op |-> "channels_add", id |-> ad[i]]]

\* lines 130-132: an uploaded placeholder image clears the picture
Cleaned(data, files) == [data EXCEPT !.picture = IF files # None THEN None ELSE @]

\* lines 130-229 for one request: d is the database as the request sees it,
\* ev its in-memory event, tag_order the iteration order of value - prev,
\* pick the rows the ambiguous lookups return, tags_now and channels_now the
\* lists read at lines 152 and 154
FieldLoop(previous, data, files, ev, d, seq, tag_order, pick, tags_now, channels_now) ==
    LET cleaned == Cleaned(data, files)
        chPrev == Range(previous.channels)
        chValue == cleaned.channels
        tagValue == cleaned.tags
        tagPrev == TagNamesOf(d.Tag, Range(previous.tags))
        changed ==
            {k \in ScalarKeys : ScalarChanged(cleaned[k], previous[k])}
            \cup (IF FileChanged(files) THEN {"placeholder_img"} ELSE {})
            \cup (IF RelationChanged(chPrev, chValue) THEN {"channels"} ELSE {})
            \cup (IF RelationChanged(tagPrev, tagValue) THEN {"tags"} ELSE {})
        entry(k) ==
            CASE k = "channels" ->
                    [from |-> ChannelLabel(chPrev), to |-> ChannelLabel(chValue)]
              [] k = "tags" -> [from |-> TagLabel(tagPrev), to |-> TagLabel(tagValue)]
              [] k = "placeholder_img" ->
                    [from |-> IF ev.placeholder_img # None
                              THEN Url(ev.placeholder_img) ELSE "",
                     to |-> "__saved__event_placeholder_img"]
              [] OTHER -> [from |-> previous[k], to |-> cleaned[k]]
        added == AddTags(tag_order, [rows |-> d.Tag, seq |-> seq, log |-> <<>>], pick)
    IN [raises |-> RemoveRaises(d.Tag, tagPrev \ tagValue),
        changes |-> [k \in changed |-> entry(k)],
        conflict_errors |->
            {k \in changed :
                IsConflict(previous[k], CurrentValue(k, ev, files, tags_now, channels_now))},
        event |-> [ev EXCEPT
                      !.title = IF "title" \in changed THEN cleaned.title ELSE @,
                      !.description =
                          IF "description" \in changed THEN cleaned.description ELSE @,
                      !.picture = IF "picture" \in changed THEN cleaned.picture ELSE @,
                      !.placeholder_img = IF FileChanged(files) THEN files ELSE @],
        log |-> ChannelOps(chPrev, chValue)
                \o (IF RemoveRaises(d.Tag, tagPrev \ tagValue) THEN <<>>
                    ELSE RemoveTags(d.Tag, tagPrev \ tagValue))
                \o added.log,
        seq |-> added.seq]

-----------------------------------------------------------------------------
(* Requests *)

NoBaseline == [none |-> TRUE]

NoData == [none |-> TRUE]

Quiet(u) == pc[u] = "idle"

\* the form fields in which a submission differs from the page it was typed in
Edited(data, files, previous, rows) ==
    {k \in ScalarKeys : data[k] # previous[k]}
    \cup (IF files # None THEN {"placeholder_img"} ELSE {})
    \cup (IF data.tags # TagNamesOf(rows, Range(previous.tags)) THEN {"tags"} ELSE {})
    \cup (IF data.channels # Range(previous.channels) THEN {"channels"} ELSE {})

\* the cleaned_data a valid form can carry; tags are the names of the values
\* the form hands over (line 182 reads only their names)
CleanedData ==
    [title : TitleVals, description : DescriptionVals, picture : PictureVals,
     tags : SUBSET TagNames, channels : SUBSET ChannelIds]

\* lines 66-100, EventEditView.get: the page carries event_to_dict(event) as
\* 'previous'
Get(u) ==
    /\ Quiet(u)
    /\ \E snap \in EventToDict(db) : baseline' = [baseline EXCEPT ![u] = snap]
    /\ UNCHANGED <<db, tagSeq, revSeq, pc, req, event, wlog, base_revision, changes,
                   conflict_errors, outcome, pre, nreq, editable, history>>
    /\ UNCHANGED <<chapterVars, thumbVars>>

\* lines 103-123: the transaction opens, get_event loads the event, the early
\* returns of lines 108-114 (cancel, may not view, may not edit) are taken,
\* 'previous' is parsed and the form is built.  kind is what the request turns
\* out to be: "early" for the early returns, else whether the form validates.
Begin(u) ==
    /\ Quiet(u)
    /\ nreq < MaxRequests
    /\ baseline[u] # NoBaseline
    /\ \E kind \in {"early", "invalid", "valid"} :
       \E data \in (IF kind = "valid" THEN CleanedData ELSE {NoData}) :
       \E files \in (IF kind = "valid" THEN UploadVals ELSE {None}) :
          /\ kind = "valid" => Edited(data, files, baseline[u], db.Tag) \subseteq editable
          /\ req' = [req EXCEPT ![u] =
                        [kind |-> kind, previous |-> baseline[u],
                         cleaned_data |-> data, files |-> files, user |-> u]]
          /\ pc' = [pc EXCEPT ![u] =
                        IF kind = "early" THEN "returned" ELSE "loaded"]
          /\ outcome' = [outcome EXCEPT ![u] =
                        IF kind = "early" THEN "redirect" ELSE "none"]
    /\ event' = [event EXCEPT ![u] = db.event]
    /\ pre' = [pre EXCEPT ![u] = db]
    /\ nreq' = nreq + 1
    /\ UNCHANGED <<db, tagSeq, revSeq, baseline, wlog, base_revision, changes,
                   conflict_errors, editable, history>>
    /\ UNCHANGED <<chapterVars, thumbVars>>

\* lines 124-229: form.is_valid(), the baseline revision of a revision-less
\* event, then the loop over cleaned_data
Resolve(u) ==
    /\ pc[u] = "loaded"
    /\ LET valid == req[u].kind = "valid"
           d == ApplyLog(db, wlog[u])
           base == NeedsBaseRevision(valid, d.revisions)
           baseLog == BaseLog(base, revSeq + 1, event[u], d.tags, d.channels)
       IN /\ revSeq' = IF base THEN revSeq + 1 ELSE revSeq
          /\ base_revision' = [base_revision EXCEPT ![u] = IF base THEN revSeq + 1 ELSE 0]
          /\ IF ~valid
             THEN /\ pc' = [pc EXCEPT ![u] = "resolved"]
                  /\ wlog' = [wlog EXCEPT ![u] = @ \o baseLog]
                  /\ UNCHANGED <<tagSeq, event, changes, conflict_errors, outcome>>
             ELSE \E tags_now \in Perms(d.tags), channels_now \in Perms(d.channels) :
                  \E pick \in Picks(d.Tag, tagSeq) :
                  \E tag_order \in Perms(req[u].cleaned_data.tags
                                           \ TagNamesOf(d.Tag, Range(req[u].previous.tags))) :
                     LET r == FieldLoop(req[u].previous, req[u].cleaned_data, req[u].files,
                                        event[u], d, tagSeq, tag_order, pick,
                                        tags_now, channels_now)
                     IN IF r.raises
                        THEN /\ pc' = [pc EXCEPT ![u] = "returned"]
                             /\ outcome' = [outcome EXCEPT ![u] = "error"]
                             /\ wlog' = [wlog EXCEPT ![u] = @ \o baseLog]
                             /\ UNCHANGED <<tagSeq, event, changes, conflict_errors>>
                        ELSE /\ pc' = [pc EXCEPT ![u] = "resolved"]
                             /\ tagSeq' = r.seq
                             /\ event' = [event EXCEPT ![u] = r.event]
                             /\ wlog' = [wlog EXCEPT ![u] = @ \o baseLog \o r.log]
                             /\ changes' = [changes EXCEPT ![u] = r.changes]
                             /\ conflict_errors' =
                                    [conflict_errors EXCEPT ![u] = r.conflict_errors]
                             /\ UNCHANGED outcome
    /\ UNCHANGED <<db, baseline, req, pre, nreq, editable, history>>
    /\ UNCHANGED <<chapterVars, thumbVars>>

\* lines 231-250: the three endings of a valid form, and the re-rendered form
\* of an invalid one; self.get() hands the client a new 'previous'
Finish(u) ==
    /\ pc[u] = "resolved"
    /\ pc' = [pc EXCEPT ![u] = "returned"]
    /\ LET valid == req[u].kind = "valid"
           branch == Branch(conflict_errors[u], DOMAIN changes[u])
           d == ApplyLog(db, wlog[u])
       IN IF ~valid \/ branch = "CONFLICT"
          THEN /\ outcome' = [outcome EXCEPT ![u] = IF valid THEN "CONFLICT" ELSE "invalid"]
               /\ \E snap \in EventToDict(d) : baseline' = [baseline EXCEPT ![u] = snap]
               /\ UNCHANGED <<wlog, revSeq>>
          ELSE IF branch = "CHANGED"
          THEN /\ outcome' = [outcome EXCEPT ![u] = "CHANGED"]
               /\ wlog' = [wlog EXCEPT ![u] =
                     @ \o ChangedLog(revSeq + 1, event[u], d.tags, d.channels, req[u].user)]
               /\ revSeq' = revSeq + 1
               /\ UNCHANGED baseline
          ELSE /\ outcome' = [outcome EXCEPT ![u] = "NOOP"]
               /\ wlog' = [wlog EXCEPT ![u] = @ \o NoopLog(base_revision[u])]
               /\ UNCHANGED <<baseline, revSeq>>
    /\ UNCHANGED <<db, tagSeq, req, event, base_revision, changes, conflict_errors,
                   pre, nreq, editable, history>>
    /\ UNCHANGED <<chapterVars, thumbVars>>

\* what is kept of a finished request
Finished(u, post) ==
    [user |-> req[u].user, kind |-> req[u].kind, previous |-> req[u].previous,
     cleaned_data |-> req[u].cleaned_data, files |-> req[u].files,
     outcome |-> outcome[u], changes |-> changes[u],
     conflict_errors |-> conflict_errors[u], base_revision |-> base_revision[u],
     pre |-> pre[u], post |-> post]

\* line 102, transaction.atomic: leaving post() ends the transaction, and the
\* request's locals are gone
Commit(u) ==
    /\ pc[u] = "returned"
    /\ db' = AtomicExit(db, wlog[u], outcome[u])
    /\ history' = <<Finished(u, db')>> \o (IF history = <<>> THEN <<>> ELSE <<history[1]>>)
    /\ pc' = [pc EXCEPT ![u] = "idle"]
    /\ req' = [req EXCEPT ![u] = NoData]
    /\ event' = [event EXCEPT ![u] = NoData]
    /\ wlog' = [wlog EXCEPT ![u] = <<>>]
    /\ base_revision' = [base_revision EXCEPT ![u] = 0]
    /\ changes' = [changes EXCEPT ![u] = <<>>]
    /\ conflict_errors' = [conflict_errors EXCEPT ![u] = {}]
    /\ outcome' = [outcome EXCEPT ![u] = "none"]
    /\ pre' = [pre EXCEPT ![u] = NoData]
    /\ UNCHANGED <<tagSeq, revSeq, baseline, nreq, editable>>
    /\ UNCHANGED <<chapterVars, thumbVars>>

-----------------------------------------------------------------------------
(* EventRevisionView.get *)

\* line 282, revision.get_previous_by_created(event=event): the latest revision
\* created before this one (ties on created go by id); the empty set stands
\* for EventRevision.DoesNotExist
GetPreviousByCreated(revisions, revision) ==
    LET earlier == {r \in revisions :
                       \/ r.created < revision.created
                       \/ r.created = revision.created /\ r.id < revision.id}
    IN {r \in earlier :
           \A q \in earlier :
               \/ q.created < r.created
               \/ q.created = r.created /\ q.id <= r.id}

-----------------------------------------------------------------------------
(* EventEditChaptersView *)

ChapterTimestamps == {5, 10}

ChapterTexts == {"x", "y"}

NoPost == [op |-> "none"]

\* Chapter rows of the event with this timestamp, as Chapter.objects.get and
\* get_object_or_404 look them up
ChaptersAt(rows, t) == {c \in rows : c.timestamp = t}

\* lines 346-362: the entries of the 'all' listing
ActiveChapters(rows) ==
    {[timestamp |-> c.timestamp, text |-> c.text, user |-> c.user] :
        c \in {r \in rows : r.is_active}}

\* lines 384-391: the chapter found is switched off
DeleteChapter(rows, t) ==
    (rows \ ChaptersAt(rows, t))
    \cup {[c EXCEPT !.is_active = FALSE] : c \in ChaptersAt(rows, t)}

\* lines 396-410: the chapter found gets the user and the text; when there is
\* none, a row is made, which is active as new rows are
SaveChapter(rows, id, t, x, user) ==
    IF ChaptersAt(rows, t) = {}
    THEN rows \cup {[id |-> id, timestamp |-> t, text |-> x, user |-> user,
                     is_active |-> TRUE]}
    ELSE (rows \ ChaptersAt(rows, t))
         \cup {[c EXCEPT !.user = user, !.text = x] : c \in ChaptersAt(rows, t)}

\* lines 339-365, EventEditChaptersView.get with 'all'; the other GETs render
\* pages and leave everything as it is
ChaptersGet(u) ==
    /\ chapterList' = [fresh |-> TRUE, chapters |-> ActiveChapters(Chapter)]
    /\ UNCHANGED <<Chapter, chapterSeq, chapterTasks, chapterPost>>
    /\ UNCHANGED <<editVars, thumbVars>>

\* lines 376-413, EventEditChaptersView.post: the early returns, a delete, or
\* a save whose form validates or not
ChaptersPost(u) ==
    /\ \E kind \in {"early", "delete", "invalid", "save"} :
       \E t \in ChapterTimestamps, x \in ChapterTexts :
          LET found == ChaptersAt(Chapter, t)
          IN IF kind = "early"
             THEN /\ chapterPost' = [op |-> "early", user |-> u, response |-> "redirect"]
                  /\ UNCHANGED <<Chapter, chapterSeq, chapterTasks>>
             ELSE IF kind = "invalid"
             THEN /\ chapterPost' = [op |-> "save", user |-> u, response |-> "errors"]
                  /\ UNCHANGED <<Chapter, chapterSeq, chapterTasks>>
             ELSE IF kind = "delete"
             THEN IF Cardinality(found) # 1
                  THEN /\ chapterPost' =
                             [op |-> "delete", user |-> u, timestamp |-> t,
                              response |-> IF found = {} THEN "404" ELSE "error"]
                       /\ UNCHANGED <<Chapter, chapterSeq, chapterTasks>>
                  ELSE /\ Chapter' = DeleteChapter(Chapter, t)
                       /\ chapterPost' =
                             [op |-> "delete", user |-> u, timestamp |-> t, response |-> "ok"]
                       /\ UNCHANGED <<chapterSeq, chapterTasks>>
             ELSE IF Cardinality(found) > 1
                  THEN /\ chapterPost' =
                             [op |-> "save", user |-> u, timestamp |-> t, text |-> x,
                              response |-> "error"]
                       /\ UNCHANGED <<Chapter, chapterSeq, chapterTasks>>
                  ELSE /\ Chapter' = SaveChapter(Chapter, chapterSeq + 1, t, x, u)
                       /\ chapterSeq' = IF found = {} THEN chapterSeq + 1 ELSE chapterSeq
                       /\ chapterTasks' = chapterTasks
                             \cup {c.id : c \in ChaptersAt(Chapter', t)}
                       /\ chapterPost' =
                             [op |-> "save", user |-> u, timestamp |-> t, text |-> x,
                              response |-> "ok"]
    /\ chapterList' = [chapterList EXCEPT !.fresh = FALSE]
    /\ UNCHANGED <<editVars, thumbVars>>

-----------------------------------------------------------------------------
(* EventChaptersThumbnailsView.get *)

\* clock advances explored in one behaviour
MaxTicks == 3

EventId == 1

\* the lists get_timenail_timestamps(event) can return
TimenailLists == {<<5>>, <<5, 10>>}

Timestamps == {5, 10}

\* Picture.modified, of which the cache key keeps the microseconds
Modified == {1, 2}

\* picture.modified.strftime('%f')
Microseconds(modified) == IF modified = 1 THEN "000001" ELSE "000002"

\* what FuzzyImageCompare(...).similarity() can come to
SimilarityVals == {40, 90}

NoPicture == [none |-> TRUE]

\* line 484
LockTimeout == 60 * 10

\* line 466
SimilarityTimeout == 60 * 60 * 24 * 7

\* line 488: "we only ask for 10 at a time"
GroupSize == 10

\* a cache that never has the key
CacheGet_Miss(c, key, default, time) == default

\* cache.get(key, default): the value of an entry that has not expired
CacheGet(c, key, default, time) ==
    IF \E e \in c : e.key = key /\ time < e.expires
    THEN (CHOOSE e \in c : e.key = key).value
    ELSE default

\* cache.set(key, value, timeout)
CacheSet(c, key, value, timeout, time) ==
    {e \in c : e.key # key}
    \cup {[key |-> key, value |-> value, expires |-> time + timeout]}

\* line 481: 'lock-{}-{}'.format(event.id, at)
LockKey(id, at) == "lock-" \o ToString(id) \o "-" \o ToString(at)

\* lines 430-434, make_similarity_cache_key of two pictures
SimilarityKey(picture1, picture2) ==
    "similarity:" \o Microseconds(picture1.modified) \o Microseconds(picture2.modified)

\* lines 488: fetch[i:i + 10] for i in range(0, len(fetch), 10)
Chunks(fetch) ==
    [k \in 1..((Len(fetch) + GroupSize - 1) \div GroupSize) |->
        SubSeq(fetch, (k - 1) * GroupSize + 1,
               IF k * GroupSize < Len(fetch) THEN k * GroupSize ELSE Len(fetch))]

RECURSIVE ThumbLoop(_, _, _, _, _)
\* lines 436-484, the loop over the timestamps; st = [pictures, missing,
\* fetch, cache, prev], rows the Picture rows, compare the similarity an image
\* comparison with the picture at a timestamp comes to
ThumbLoop(ats, st, rows, time, compare) ==
    IF ats = <<>> THEN st
    ELSE LET at == Head(ats)
             qs == {p \in rows : p.timestamp = at}
         IN IF qs # {}
            THEN LET picture == CHOOSE p \in qs : \A q \in qs : q.modified <= p.modified
                     keyed == st.prev # NoPicture
                     key == IF keyed THEN SimilarityKey(picture, st.prev) ELSE None
                     cached == IF keyed THEN CacheGet(st.cache, key, -1, time) ELSE -1
                     similarity ==
                         IF cached # -1 THEN cached
                         ELSE IF keyed THEN compare[at] ELSE -1
                 IN ThumbLoop(Tail(ats),
                        [st EXCEPT
                            !.pictures = Append(@, [at |-> picture.timestamp,
                                                    similarity |-> similarity]),
                            !.cache = IF keyed /\ cached = -1
                                      THEN CacheSet(@, key, similarity, SimilarityTimeout, time)
                                      ELSE @,
                            !.prev = picture],
                        rows, time, compare)
            ELSE LET lock == LockKey(EventId, at)
                     free == CacheGet(st.cache, lock, None, time) = None
                 IN ThumbLoop(Tail(ats),
                        [st EXCEPT
                            !.missing = Append(@, at),
                            !.fetch = IF free THEN Append(@, at) ELSE @,
                            !.cache = IF free
                                      THEN CacheSet(@, lock, "True", LockTimeout, time)
                                      ELSE @],
                        rows, time, compare)

NoThumbs ==
    [kind |-> "none", time |-> 0, pictures |-> <<>>, missing |-> 0, fetch |-> <<>>,
     before |-> [cache |-> {}, Picture |-> {}]]

\* lines 418-495, EventChaptersThumbnailsView.get: the early returns, or the
\* loop, the calls of the task and the JSON response
Thumbnails ==
    /\ \E kind \in {"early", "json"} :
       \E compare \in [Timestamps -> SimilarityVals] :
          LET r == ThumbLoop(timenails,
                             [pictures |-> <<>>, missing |-> <<>>, fetch |-> <<>>,
                              cache |-> cache, prev |-> NoPicture],
                             Picture, now, compare)
              groups == Chunks(r.fetch)
          IN IF kind = "early"
             THEN /\ thumbs' = [NoThumbs EXCEPT !.kind = "redirect", !.time = now]
                  /\ UNCHANGED <<cache, dispatched>>
             ELSE /\ cache' = r.cache
                  /\ dispatched' = dispatched
                        \o [k \in 1..Len(groups) |->
                               [event_id |-> EventId, group |-> groups[k], time |-> now]]
                  /\ thumbs' = [kind |-> "json", time |-> now, pictures |-> r.pictures,
                                missing |-> Len(r.missing), fetch |-> r.fetch,
                                before |-> [cache |-> cache, Picture |-> Picture]]
    /\ UNCHANGED <<timenails, Picture, now, ticks>>
    /\ UNCHANGED <<editVars, chapterVars>>

\* time passes between two requests: half the life of a lock, or all of it
Tick ==
    /\ ticks < MaxTicks
    /\ \E dt \in {LockTimeout \div 2, LockTimeout} : now' = now + dt
    /\ ticks' = ticks + 1
    /\ UNCHANGED <<timenails, Picture, cache, dispatched, thumbs>>
    /\ UNCHANGED <<editVars, chapterVars>>

\* line 490: the task that was asked for a timestamp makes its picture
PictureArrives ==
    /\ \E at \in Timestamps, m \in Modified :
          /\ \E i \in DOMAIN dispatched : at \in Range(dispatched[i].group)
          /\ \A p \in Picture : p.timestamp # at
          /\ Picture' = Picture \cup {[timestamp |-> at, modified |-> m]}
    /\ UNCHANGED <<timenails, cache, now, ticks, dispatched, thumbs>>
    /\ UNCHANGED <<editVars, chapterVars>>

-----------------------------------------------------------------------------
(* Specifications *)

TagTableA == {[id |-> 1, name |-> "Foo"]}

TagTableB == {[id |-> 1, name |-> "foo"], [id |-> 2, name |-> "Foo"]}

TagTableC == {[id |-> 1, name |-> "bar"]}

\* a scenario: the fields the clients edit, the Tag rows and the event's tags
Scenario(keys, rows, tags) == [editable |-> keys, rows |-> rows, tags |-> tags]

TagScenarios(keys) ==
    {Scenario(keys, TagTableA, {}), Scenario(keys, TagTableA, {1}),
     Scenario(keys, TagTableB, {}), Scenario(keys, TagTableB, {1}),
     Scenario(keys, TagTableB, {2})}

\* requests processed one after another
SeqScenarios ==
    {Scenario({"title", "description"}, TagTableA, {1}),
     Scenario({"picture", "placeholder_img"}, TagTableA, {1}),
     Scenario({"description", "channels"}, TagTableA, {1})}
    \cup TagScenarios({"title", "tags"})
    \cup {Scenario({"tags"}, TagTableC, {1})}

\* requests interleaved
ConcScenarios ==
    {Scenario({"title", "description"}, TagTableA, {1}),
     Scenario({"tags"}, TagTableA, {})}

InitRows(scenarios) ==
    /\ \E sc \in scenarios :
          /\ db = [event |-> [title |-> "Old", description |-> "d0", picture |-> None,
                              placeholder_img |-> "img0"],
                   tags |-> sc.tags, channels |-> {1}, Tag |-> sc.rows, revisions |-> {}]
          /\ tagSeq = Cardinality(sc.rows)
          /\ editable = sc.editable
    /\ revSeq = 0
    /\ pc = [u \in Users |-> "idle"]
    /\ baseline = [u \in Users |-> NoBaseline]
    /\ req = [u \in Users |-> NoData]
    /\ event = [u \in Users |-> NoData]
    /\ wlog = [u \in Users |-> <<>>]
    /\ base_revision = [u \in Users |-> 0]
    /\ changes = [u \in Users |-> <<>>]
    /\ conflict_errors = [u \in Users |-> {}]
    /\ outcome = [u \in Users |-> "none"]
    /\ pre = [u \in Users |-> NoData]
    /\ nreq = 0
    /\ history = <<>>

\* nothing has been asked of the chapters view
ChaptersIdle ==
    /\ Chapter = {}
    /\ chapterSeq = 0
    /\ chapterTasks = {}
    /\ chapterPost = NoPost
    /\ chapterList = [fresh |-> FALSE, chapters |-> {}]

\* nothing has been asked of the thumbnails view
ThumbsIdle ==
    /\ timenails = <<5>>
    /\ Picture = {}
    /\ cache = {}
    /\ now = 0
    /\ ticks = 0
    /\ dispatched = <<>>
    /\ thumbs = NoThumbs

\* requests are processed one after another
Init == InitRows(SeqScenarios) /\ ChaptersIdle /\ ThumbsIdle

AllQuiet == \A u \in Users : Quiet(u)

Next ==
    \E u \in SeqUsers :
        \/ AllQuiet /\ Get(u)
        \/ AllQuiet /\ Begin(u)
        \/ Resolve(u)
        \/ Finish(u)
        \/ Commit(u)

Spec == Init /\ [][Next]_vars

\* the steps of two requests interleave
InitConc == InitRows(ConcScenarios) /\ ChaptersIdle /\ ThumbsIdle

NextConc ==
    \E u \in Users :
        \/ Get(u)
        \/ Begin(u)
        \/ Resolve(u)
        \/ Finish(u)
        \/ Commit(u)

SpecConc == InitConc /\ [][NextConc]_vars

\* the edit view at rest
EditIdle == InitRows({Scenario({}, TagTableA, {1})})

\* chapter requests, one after another
InitChapters == EditIdle /\ ChaptersIdle /\ ThumbsIdle

NextChapters ==
    \E u \in Users :
        \/ ChaptersGet(u)
        \/ ChaptersPost(u)

SpecChapters == InitChapters /\ [][NextChapters]_vars

\* thumbnail requests, one after another, with time passing between them
InitThumbs ==
    /\ EditIdle /\ ChaptersIdle
    /\ timenails \in TimenailLists
    /\ Picture \in {{}, {[timestamp |-> 5, modified |-> 1]}}
    /\ cache = {}
    /\ now = 0
    /\ ticks = 0
    /\ dispatched = <<>>
    /\ thumbs = NoThumbs

NextThumbs ==
    \/ Thumbnails
    \/ Tick
    \/ PictureArrives

SpecThumbs == InitThumbs /\ [][NextThumbs]_vars

-----------------------------------------------------------------------------
(* Properties *)

\* a finished request whose form validated and whose loop did not raise
Processed(h) == h.kind = "valid" /\ h.outcome # "error"

\* the client's page showed the event as it was when the request began
FreshBaseline(h) == h.previous \in EventToDict(h.pre)

Authored(revisions) == {r \in revisions : r.user # None}

\* C1: a request that ends in CONFLICT leaves the committed rows (the event's
\* fields, its tags and channels, the Tag table and the revisions) exactly as
\* they were when it began.
C1_ConflictPersistsNothing ==
    \A i \in DOMAIN history :
        history[i].outcome = "CONFLICT" => history[i].post = history[i].pre

\* the value of a form field in committed rows, and in a client's page
RowValue(d, key) ==
    CASE key = "tags" -> d.tags
      [] key = "channels" -> d.channels
      [] OTHER -> d.event[key]

PageValue(previous, key) ==
    IF key \in {"tags", "channels"} THEN Range(previous[key]) ELSE previous[key]

\* the client asks for a value of the field other than the one on its page
Attempts(h, key) == key \in Edited(Cleaned(h.cleaned_data, h.files), None, h.previous, h.pre.Tag)

\* the field was changed under the client after its page was rendered
Diverged(h, key) == PageValue(h.previous, key) # RowValue(h.pre, key)

\* C2: a request, processed after another request changed field f, that still
\* carries the old page and asks for another value of f ends in CONFLICT with
\* f listed, adds no authored revision and leaves f as the first request set
\* it, for scalar fields, picture, tags and channels.
C2_StaleBaselineConflicts ==
    \A i \in DOMAIN history :
        \A key \in ScalarKeys \cup {"tags", "channels"} :
            LET h == history[i]
            IN Processed(h) /\ Diverged(h, key) /\ Attempts(h, key) =>
                  /\ h.outcome = "CONFLICT"
                  /\ key \in h.conflict_errors
                  /\ Authored(h.post.revisions) = Authored(h.pre.revisions)
                  /\ RowValue(h.post, key) = RowValue(h.pre, key)

\* C3: of two requests that carry the same page and both ask for a new value
\* of the same scalar field, at most one ends CHANGED, however their steps
\* interleave.
C3_OneWinnerPerField ==
    Len(history) = 2 =>
        \A key \in ScalarKeys :
            LET h1 == history[1]
                h2 == history[2]
            IN /\ Processed(h1) /\ Processed(h2)
               /\ h1.previous = h2.previous
               /\ Attempts(h1, key) /\ Attempts(h2, key)
               => ~(h1.outcome = "CHANGED" /\ h2.outcome = "CHANGED")

\* the submission repeats the page it was typed in, and carries no file
Unedited(h) == Edited(h.cleaned_data, h.files, h.previous, h.pre.Tag) = {}

\* C4: a submission that repeats a page showing the event as it is ends in
\* NOOP: the event row, its tags and channels are as before and the event has
\* as many revisions as before, also when the request had to make a baseline.
C4_UnchangedIsNoop ==
    \A i \in DOMAIN history :
        LET h == history[i]
        IN Processed(h) /\ FreshBaseline(h) /\ Unedited(h) =>
              /\ h.outcome = "NOOP"
              /\ h.post.event = h.pre.event
              /\ h.post.tags = h.pre.tags
              /\ h.post.channels = h.pre.channels
              /\ Cardinality(h.post.revisions) = Cardinality(h.pre.revisions)

\* an unchanged submission to a revision-less event: the baseline made at
\* line 128 is deleted again
C4_Witness ==
    \E i \in DOMAIN history :
        /\ Processed(history[i]) /\ FreshBaseline(history[i]) /\ Unedited(history[i])
        /\ history[i].base_revision # 0
        /\ history[i].post.revisions = {}

\* the snapshot a revision holds of this event row and these relations
Holds(r, d) ==
    /\ r.title = d.event.title
    /\ r.description = d.event.description
    /\ r.picture = d.event.picture
    /\ r.placeholder_img = d.event.placeholder_img
    /\ r.tags = d.tags
    /\ r.channels = d.channels

\* a first edit: no revision yet, a page showing the event as it is, and one
\* scalar field edited
FirstEdit(h, key) ==
    /\ Processed(h) /\ FreshBaseline(h)
    /\ h.pre.revisions = {}
    /\ Edited(h.cleaned_data, h.files, h.previous, h.pre.Tag) = {key}

\* C5: the first edit of one scalar field ends CHANGED, its ChangeSet is that
\* field from the page's value to the submitted value, and the event then has
\* exactly two revisions: a baseline without user holding the values before
\* the edit, then a revision by the acting user holding the values after it.
C5_FirstEditAnchors ==
    \A i \in DOMAIN history :
        \A key \in ScalarKeys :
            LET h == history[i]
            IN FirstEdit(h, key) =>
                  /\ h.outcome = "CHANGED"
                  /\ DOMAIN h.changes = {key}
                  /\ h.changes[key] = [from |-> h.previous[key], to |-> h.cleaned_data[key]]
                  /\ \E b, a \in h.post.revisions :
                        /\ h.post.revisions = {b, a}
                        /\ b.created < a.created
                        /\ b.user = None /\ Holds(b, h.pre)
                        /\ a.user = h.user /\ Holds(a, h.post)
                        /\ h.post.event[key] = h.cleaned_data[key]

C5_Witness ==
    \E i \in DOMAIN history :
        /\ FirstEdit(history[i], "title")
        /\ history[i].changes["title"] = [from |-> "Old", to |-> "A"]
        /\ Cardinality(history[i].post.revisions) = 2

\* the latest request repeats the values of the one before it, which ended
\* CHANGED from a page showing the event as it was, on a page showing the event
\* as that request left it; neither carries a file
Resubmitted(first, again) ==
    /\ Processed(first) /\ FreshBaseline(first) /\ first.outcome = "CHANGED"
    /\ Processed(again) /\ FreshBaseline(again)
    /\ again.pre = first.post
    /\ again.cleaned_data = first.cleaned_data
    /\ first.files = None /\ again.files = None

\* C6: submitting the values of a CHANGED submission again, on the page of the
\* event as it now is, gives an empty ChangeSet: NOOP and no new revision, for
\* every kind of field and whatever the casing of the submitted tags.
C6_DiffRoundTrip ==
    Len(history) = 2 /\ Resubmitted(history[2], history[1]) =>
        /\ history[1].outcome = "NOOP"
        /\ DOMAIN history[1].changes = {}
        /\ history[1].post.revisions = history[1].pre.revisions

\* the names a tags submission adds to the page's tags
AddedNames(h) == h.cleaned_data.tags \ TagNamesOf(h.pre.Tag, Range(h.previous.tags))

\* C7: a submitted tag name that is not on the page is matched without regard
\* to case: when a Tag matches, no Tag is created and a matching Tag is
\* attached; when none matches, a Tag with the submitted name is created; and
\* the `to` label of the ChangeSet names the event's tags as they are stored.
C7_TagCasing ==
    \A i \in DOMAIN history :
        LET h == history[i]
        IN Processed(h) /\ FreshBaseline(h) /\ h.outcome = "CHANGED" /\ AddedNames(h) # {} =>
              /\ \A n \in AddedNames(h) :
                    IF IExact(h.pre.Tag, n) # {}
                    THEN /\ IExact(h.post.Tag, n) = IExact(h.pre.Tag, n)
                         /\ \E r \in IExact(h.pre.Tag, n) : r.id \in h.post.tags
                    ELSE \E r \in h.post.Tag \ h.pre.Tag : r.id \in h.post.tags
              /\ "tags" \in DOMAIN h.changes
              /\ h.changes["tags"].to = TagLabel(TagNamesOf(h.post.Tag, h.post.tags))

\* the revision created first
Earliest(revisions, r) ==
    \A q \in revisions : q = r \/ q.created > r.created \/ (q.created = r.created /\ q.id > r.id)

\* C8: whatever requests have been processed, every revision with a user has
\* a revision before it, and the lookup of the previous revision fails for
\* the earliest revision only.
C8_HistoryAnchor ==
    \A r \in db.revisions :
        /\ r.user # None => GetPreviousByCreated(db.revisions, r) # {}
        /\ GetPreviousByCreated(db.revisions, r) = {} <=> Earliest(db.revisions, r)

\* a request that ended in CONFLICT after one that ended CHANGED, with the
\* baseline and a revision by a user in the rows
C8_Witness ==
    /\ Len(history) = 2
    /\ history[2].outcome = "CHANGED" /\ history[1].outcome = "CONFLICT"
    /\ \E b, a \in db.revisions :
          b.user = None /\ a.user # None /\ GetPreviousByCreated(db.revisions, a) = {b}

\* C9: a submission whose form does not validate changes no row (no field, no
\* relation, no Tag, no revision) and is answered with the form, not with
\* CONFLICT, CHANGED or NOOP.
C9_InvalidMutatesNothing ==
    \A i \in DOMAIN history :
        history[i].kind = "invalid" =>
            /\ history[i].post = history[i].pre
            /\ history[i].outcome = "invalid"
            /\ history[i].base_revision = 0

\* an invalid form posted to an event without revisions
C9_Witness ==
    \E i \in DOMAIN history :
        /\ history[i].kind = "invalid"
        /\ history[i].pre.revisions = {}
        /\ history[i].post.revisions = {}

\* C10: a scalar field is in the conflict list exactly when the submitted
\* value differs from the page's value and the page's value differs from the
\* event's current value; all such fields are listed in the one response.
C10_ExactScalarConflicts ==
    \A i \in DOMAIN history :
        LET h == history[i]
        IN Processed(h) =>
              h.conflict_errors \cap ScalarKeys =
                  {key \in ScalarKeys : Attempts(h, key) /\ Diverged(h, key)}

\* two conflicts reported in one response
C10_Witness ==
    \E i \in DOMAIN history :
        /\ Processed(history[i])
        /\ history[i].conflict_errors = {"title", "description"}
        /\ Diverged(history[i], "title") /\ Diverged(history[i], "description")

\* C11: a request that changes tags (or channels) while the event's current
\* tag ids (channel ids) are the ids on its page reports no conflict for that
\* field, in whatever order the rows came back when the page was rendered and
\* when the request reads them.
C11_MembershipNotOrder ==
    \A i \in DOMAIN history :
        \A key \in {"tags", "channels"} :
            LET h == history[i]
            IN Processed(h) /\ Attempts(h, key) /\ ~Diverged(h, key) =>
                  key \notin h.conflict_errors

\* the revisions a request has deleted in its transaction
Retracted(u) ==
    {wlog[u][i].id : i \in {j \in DOMAIN wlog[u] : wlog[u][j].op = "revision_delete"}}

\* every revision a request deletes is the baseline without user that the
\* same request made, and the request ends in NOOP
DeleteDiscipline ==
    \A u \in Users :
        \A id \in Retracted(u) :
            /\ outcome[u] = "NOOP"
            /\ id = base_revision[u]
            /\ \E j \in DOMAIN wlog[u] :
                  /\ wlog[u][j].op = "revision_create"
                  /\ wlog[u][j].rev.id = id
                  /\ wlog[u][j].rev.user = None

\* C12: a revision is deleted only by the request that made it as a baseline
\* without user and that ends in NOOP, and every committed revision (so every
\* revision with a user) is in the rows, unchanged, in every later state.
C12_RevisionsImmutable ==
    /\ []DeleteDiscipline
    /\ [][db.revisions \subseteq db'.revisions]_vars

\* a NOOP that deleted its own baseline, then a CHANGED request whose two
\* revisions are in the rows
C12_Witness ==
    /\ Len(history) = 2
    /\ history[2].outcome = "NOOP" /\ history[2].base_revision # 0
    /\ history[2].post.revisions = {}
    /\ history[1].outcome = "CHANGED"
    /\ Cardinality(db.revisions) = 2

\* C13: a validated submission ends in CONFLICT exactly when its conflict list
\* is not empty, in CHANGED exactly when the conflict list is empty and the
\* ChangeSet is not, and in NOOP otherwise; a CHANGED request adds exactly one
\* revision by the acting user (besides the baseline of a first edit), which
\* is the newest revision and holds the event as committed: its fields, tags
\* and channels.
C13_OutcomeAndRevision ==
    \A i \in DOMAIN history :
        LET h == history[i]
        IN Processed(h) =>
              /\ (h.outcome = "CONFLICT") <=> (h.conflict_errors # {})
              /\ (h.outcome = "CHANGED") <=>
                    (h.conflict_errors = {} /\ DOMAIN h.changes # {})
              /\ (h.outcome = "NOOP") <=>
                    (h.conflict_errors = {} /\ DOMAIN h.changes = {})
              /\ h.outcome = "CHANGED" =>
                    \E a \in h.post.revisions \ h.pre.revisions :
                        /\ Authored(h.post.revisions) = Authored(h.pre.revisions) \cup {a}
                        /\ (h.post.revisions \ h.pre.revisions) \ {a}
                              = {r \in h.post.revisions : r.id = h.base_revision}
                        /\ a.user = h.user
                        /\ \A q \in h.post.revisions : q.created <= a.created
                        /\ Holds(a, h.post)

\* a second CHANGED request, which changes the tags: one revision more than
\* before, by the user
C13_Witness ==
    /\ Len(history) = 2
    /\ history[2].outcome = "CHANGED"
    /\ history[1].outcome = "CHANGED" /\ history[1].base_revision = 0
    /\ "tags" \in DOMAIN history[1].changes
    /\ Cardinality(history[1].post.revisions) = Cardinality(history[1].pre.revisions) + 1

\* C14: the ChangeSet holds a scalar field exactly when its submitted value
\* (for picture: the value after line 132) differs from the page's value, with
\* from the page's value and to the submitted value; after a CHANGED request
\* processed on its own, the fields of the ChangeSet hold their submitted
\* values in the event row and every other scalar field holds the value it
\* had when the request began.
C14_ScalarChangeSet ==
    \A i \in DOMAIN history :
        \A key \in ScalarKeys :
            LET h == history[i]
                value == Cleaned(h.cleaned_data, h.files)[key]
            IN Processed(h) =>
                  /\ key \in DOMAIN h.changes <=> value # h.previous[key]
                  /\ key \in DOMAIN h.changes =>
                        h.changes[key] = [from |-> h.previous[key], to |-> value]
                  /\ h.outcome = "CHANGED" =>
                        h.post.event[key] =
                            IF key \in DOMAIN h.changes THEN value ELSE h.pre.event[key]

\* a CHANGED request that sets the title from a page whose description is out
\* of date: the title is the submitted one, the description stays as stored
C14_Witness ==
    \E i \in DOMAIN history :
        LET h == history[i]
        IN /\ Processed(h) /\ h.outcome = "CHANGED"
           /\ DOMAIN h.changes = {"title"}
           /\ h.post.event.title = h.cleaned_data.title
           /\ h.post.event.title # h.pre.event.title
           /\ h.cleaned_data.description # h.pre.event.description
           /\ h.post.event.description = h.pre.event.description

\* case-folded names
Folded(names) == {Lower(n) : n \in names}

C17_NoLostUpdateAcrossFields ==
    Len(history) = 2 =>
        \A f, g \in ScalarKeys :
            LET t1 == history[2]
                t2 == history[1]
            IN /\ f # g
               /\ Processed(t1) /\ Processed(t2)
               /\ t1.previous = t2.previous
               /\ t1.outcome = "CHANGED" /\ t2.outcome = "CHANGED"
               /\ DOMAIN t1.changes = {f} /\ DOMAIN t2.changes = {g}
               => /\ db.event[f] = t1.cleaned_data[f]
                  /\ db.event[g] = t2.cleaned_data[g]

\* C18: in every state, also when the steps of two first edits interleave,
\* the event has at most one revision without user, and that revision is the
\* earliest of the event's revisions.
C18_SingleBaseline ==
    LET baselines == db.revisions \ Authored(db.revisions)
    IN /\ Cardinality(baselines) <= 1
       /\ \A b \in baselines : Earliest(db.revisions, b)

\* an unexpired lock for the timestamp among these cache entries
Locked(c, at, time) ==
    \E e \in c : e.key = LockKey(EventId, at) /\ time < e.expires

\* the timestamps of the event that had no picture when the last request ran
MissingBefore ==
    {at \in Range(timenails) : \A p \in thumbs.before.Picture : p.timestamp # at}

\* C16: a thumbnails request counts every timestamp without picture in
\* `missing`, asks the task for exactly those of them that had no unexpired
\* lock when the request ran, in one call, and sets their locks to expire ten
\* minutes later; two calls of the task for the same timestamp are therefore
\* at least ten minutes apart.
C16_FetchDeduplicated ==
    /\ thumbs.kind = "json" =>
          /\ thumbs.missing = Cardinality(MissingBefore)
          /\ Range(thumbs.fetch) =
                {at \in MissingBefore : ~Locked(thumbs.before.cache, at, thumbs.time)}
          /\ \A at \in Range(thumbs.fetch) :
                /\ \E e \in cache :
                      e.key = LockKey(EventId, at) /\ e.expires = thumbs.time + LockTimeout
                /\ Cardinality({i \in DOMAIN dispatched :
                                   /\ dispatched[i].time = thumbs.time
                                   /\ at \in Range(dispatched[i].group)}) = 1
    /\ \A i, j \in DOMAIN dispatched :
          \A at \in Timestamps :
              /\ i < j
              /\ at \in Range(dispatched[i].group)
              /\ at \in Range(dispatched[j].group)
              => dispatched[j].time - dispatched[i].time >= LockTimeout

\* a timestamp asked for twice, ten minutes apart, and a later request that
\* still counts it as missing but does not ask for it again
C16_Witness ==
    /\ thumbs.kind = "json"
    /\ thumbs.missing > 0
    /\ thumbs.fetch = <<>>
    /\ \E i, j \in DOMAIN dispatched :
          /\ i < j
          /\ 5 \in Range(dispatched[i].group) /\ 5 \in Range(dispatched[j].group)
          /\ thumbs.time > dispatched[j].time
          /\ Locked(cache, 5, thumbs.time)

\* C19: after a save that was answered with ok, the event has exactly one
\* chapter at the saved timestamp, and the listing of active chapters fetched
\* right after it has a chapter at that timestamp with the saved text and the
\* saving user, also when the chapter at that timestamp was deleted before.
C19_SaveIsVisibleUpsert ==
    chapterPost.op = "save" /\ chapterPost.response = "ok" =>
        /\ Cardinality(ChaptersAt(Chapter, chapterPost.timestamp)) = 1
        /\ chapterList.fresh =>
              \E c \in chapterList.chapters :
                  /\ c.timestamp = chapterPost.timestamp
                  /\ c.text = chapterPost.text
                  /\ c.user = chapterPost.user

====
